---- MODULE Spec2Model ----
(***************************************************************************)
(* The FCFS scheduling simulator of src/app/page.tsx: the pure function    *)
(* calculateFCFS and the React component FCFSScheduler that keeps the      *)
(* working set of processes, validates the form and shows the schedule.    *)
(*                                                                         *)
(* JavaScript numbers are modelled as integers; every value of the model   *)
(* stays far below 2^53, where double arithmetic on integers is exact.     *)
(* Strings are sequences of one-character strings.                         *)
(***************************************************************************)
EXTENDS Integers, Sequences, FiniteSets, TLC

VARIABLES
    processes,           \* useState<Process[]>: the working set, after every queued update
    newProcess,          \* useState<ProcessInput>: the form's three texts
    error,               \* useState<string | null>
    closure,             \* what the handlers of the last render captured
    scheduledProcesses,  \* useMemo: calculateFCFS(processes) of the last render
    averages,            \* useMemo: the averages of the last render
    pending,             \* handler calls since the last render
    lastCall             \* the handler called last, with its argument

vars == <<processes, newProcess, error, closure, scheduledProcesses, averages,
          pending, lastCall>>

----------------------------------------------------------------------------
(* Bounds of the model *)

\* the working set holds at most MaxProcs processes (addProcess is not offered beyond)
MaxProcs == 3
\* at most MaxBatch handler calls run between two renders
MaxBatch == 2
\* calculateFCFS alone: inputs of at most MaxLen processes,
\* arrival in 0..MaxArrival, burst in BurstValues
MaxLen == 3
MaxArrival == 2
BurstValues == {1, 2}

\* the texts the user types into the three fields (each field starts empty)
NameTexts == { <<>> }
ArrivalTexts == { <<"2", ".", "5">>, <<"-", "1">> }
BurstTexts == { <<"x">>, <<" ", "3">>, <<"0">> }

----------------------------------------------------------------------------
(* JavaScript values and built-ins the code uses *)

\* a number that parseInt returns: NaN, or an integer
NaN == [nan |-> TRUE, value |-> 0]

Num(n) == [nan |-> FALSE, value |-> n]

null == "null"

Max(a, b) == IF a >= b THEN a ELSE b

Digits == <<"0", "1", "2", "3", "4", "5", "6", "7", "8", "9">>

IsDigit(c) == \E d \in 1..10 : Digits[d] = c

DigitValue(c) == (CHOOSE d \in 1..10 : Digits[d] = c) - 1

IsWhiteSpace(c) == c \in {" ", "\t", "\n"}

RECURSIVE TrimStart(_)
TrimStart(s) ==
    IF s # <<>> /\ IsWhiteSpace(Head(s)) THEN TrimStart(Tail(s)) ELSE s

RECURSIVE DigitPrefix(_)
DigitPrefix(s) ==
    IF s # <<>> /\ IsDigit(Head(s))
    THEN <<Head(s)>> \o DigitPrefix(Tail(s))
    ELSE <<>>

RECURSIVE DecimalValue(_)
DecimalValue(ds) ==
    IF ds = <<>> THEN 0
    ELSE 10 * DecimalValue(SubSeq(ds, 1, Len(ds) - 1)) + DigitValue(ds[Len(ds)])

\* parseInt(text, 10): leading white space is skipped, one sign is read, then
\* the longest run of decimal digits; no digit at all gives NaN
parseInt(text) ==
    LET s == TrimStart(text)
        signed == s # <<>> /\ Head(s) \in {"+", "-"}
        negative == signed /\ Head(s) = "-"
        body == IF signed THEN Tail(s) ELSE s
        ds == DigitPrefix(body)
    IN  IF ds = <<>> THEN NaN
        ELSE IF negative THEN Num(0 - DecimalValue(ds)) ELSE Num(DecimalValue(ds))

isNaN(x) == x.nan

\* String(n) of a non-negative integer
RECURSIVE NumberToString(_)
NumberToString(n) ==
    IF n < 10 THEN <<Digits[n + 1]>>
    ELSE NumberToString(n \div 10) \o <<Digits[(n % 10) + 1]>>

\* the template literal `P${n}`
DefaultName(n) == <<"P">> \o NumberToString(n)

RECURSIVE Gcd(_, _)
Gcd(a, b) == IF b = 0 THEN a ELSE Gcd(b, a % b)

\* a quotient of two non-negative integers is kept as the reduced fraction
\* num / den; the integer n is n / 1, and 0 / 0 (NaN) is kept as 0 / 0
Fraction(n) == [num |-> n, den |-> 1]

Divide(a, b) ==
    IF b = 0 THEN [num |-> (IF a = 0 THEN 0 ELSE 1), den |-> 0]
    ELSE [num |-> a \div Gcd(a, b), den |-> b \div Gcd(a, b)]

\* (p.field || 0) of an optional numeric field
FieldOrZero(p, f) == IF f \in DOMAIN p THEN p[f] ELSE 0

----------------------------------------------------------------------------
(* calculateFCFS *)

\* a comparator that breaks ties by burst, as shortest-job-first would
compareByBurst(a, b) ==
    IF a.arrival # b.arrival THEN a.arrival - b.arrival ELSE a.burst - b.burst

\* a comparator without the tie-break
compareArrivalOnly(a, b) == a.arrival - b.arrival

\* the sort comparator: arrival first, then id
compare(a, b) ==
    IF a.arrival # b.arrival THEN a.arrival - b.arrival ELSE a.id - b.id

\* Array.prototype.sort is stable: an element goes behind every element that
\* does not compare greater than it
RECURSIVE InsertSorted(_, _)
InsertSorted(sorted, p) ==
    IF sorted = <<>> THEN <<p>>
    ELSE IF compare(Head(sorted), p) <= 0
         THEN <<Head(sorted)>> \o InsertSorted(Tail(sorted), p)
         ELSE <<p>> \o sorted

RECURSIVE SortFrom(_, _)
SortFrom(sorted, rest) ==
    IF rest = <<>> THEN sorted
    ELSE SortFrom(InsertSorted(sorted, Head(rest)), Tail(rest))

\* [...inputProcesses].sort(compare)
sortedProcesses(inputProcesses) == SortFrom(<<>>, inputProcesses)

\* start times that a slip in the line of Math.max would give: the arrival
\* forgotten, the busy processor forgotten, Math.min for Math.max
startIgnoringArrival(currentTime, process) == currentTime

startIgnoringCurrentTime(currentTime, process) == process.arrival

startWithMin(currentTime, process) ==
    IF currentTime <= process.arrival THEN currentTime ELSE process.arrival

\* const start = Math.max(currentTime, process.arrival)
startTime(currentTime, process) == Max(currentTime, process.arrival)

\* the body of the loop for one process
scheduled(currentTime, process) ==
    LET start == startTime(currentTime, process)
        completion == start + process.burst
        turnaround == completion - process.arrival
        waiting == turnaround - process.burst
    IN  [id |-> process.id, name |-> process.name,
         arrival |-> process.arrival, burst |-> process.burst,
         start |-> start, completion |-> completion,
         turnaround |-> turnaround, waiting |-> waiting]

\* the loop without its last line, currentTime = completion
RECURSIVE scheduleLoopNoAdvance(_, _)
scheduleLoopNoAdvance(sorted, currentTime) ==
    IF sorted = <<>> THEN <<>>
    ELSE <<scheduled(currentTime, Head(sorted))>>
             \o scheduleLoopNoAdvance(Tail(sorted), currentTime)

\* the loop over sortedProcesses, currentTime being the last completion
RECURSIVE scheduleLoop(_, _)
scheduleLoop(sorted, currentTime) ==
    IF sorted = <<>> THEN <<>>
    ELSE LET s == scheduled(currentTime, Head(sorted))
         IN  <<s>> \o scheduleLoop(Tail(sorted), s.completion)

calculateFCFS(inputProcesses) ==
    IF Len(inputProcesses) = 0 THEN <<>>
    ELSE scheduleLoop(sortedProcesses(inputProcesses), 0)

----------------------------------------------------------------------------
(* the averages of the component *)

RECURSIVE SumField(_, _)
SumField(ps, f) ==
    IF ps = <<>> THEN 0
    ELSE FieldOrZero(Head(ps), f) + SumField(Tail(ps), f)

\* the averages without the test for the empty schedule
computeAveragesUnguarded(sched) ==
    [avgTAT |-> Divide(SumField(sched, "turnaround"), Len(sched)),
     avgWT |-> Divide(SumField(sched, "waiting"), Len(sched))]

\* the memo averages
computeAverages(sched) ==
    IF Len(sched) = 0 THEN [avgTAT |-> Fraction(0), avgWT |-> Fraction(0)]
    ELSE [avgTAT |-> Divide(SumField(sched, "turnaround"), Len(sched)),
          avgWT |-> Divide(SumField(sched, "waiting"), Len(sched))]

----------------------------------------------------------------------------
(* the component FCFSScheduler *)

EmptyInput == [name |-> <<>>, arrival |-> <<>>, burst |-> <<>>]

ErrorMessage == "Please ensure Arrival Time is non-negative and Burst Time is positive."

\* the state after construction and the first render
Init ==
    /\ processes = <<>>
    /\ newProcess = EmptyInput
    /\ error = null
    /\ closure = [length |-> 0, newProcess |-> EmptyInput]
    /\ scheduledProcesses = <<>>
    /\ averages = [avgTAT |-> Fraction(0), avgWT |-> Fraction(0)]
    /\ pending = 0
    /\ lastCall = [op |-> "none"]

\* React renders the component again: the memos are recomputed from the state
\* and the handlers capture the state of this render
Render ==
    /\ pending > 0
    /\ scheduledProcesses' = calculateFCFS(processes)
    /\ averages' = computeAverages(calculateFCFS(processes))
    /\ closure' = [length |-> Len(processes), newProcess |-> newProcess]
    /\ pending' = 0
    /\ UNCHANGED <<processes, newProcess, error, lastCall>>

\* handleInputChange: the user edits one field of the form
handleInputChange(name, value) ==
    /\ pending < MaxBatch
    /\ error' = null
    /\ newProcess' = [newProcess EXCEPT ![name] = value]
    /\ pending' = pending + 1
    /\ lastCall' = [op |-> "handleInputChange"]
    /\ UNCHANGED <<processes, closure, scheduledProcesses, averages>>

\* a test that lets a burst of 0 pass
rejectsOnlyNegativeBurst(arrival, burst) ==
    isNaN(arrival) \/ isNaN(burst) \/ arrival.value < 0 \/ burst.value < 0

\* the test of addProcess that rejects the input
rejects(arrival, burst) ==
    isNaN(arrival) \/ isNaN(burst) \/ arrival.value < 0 \/ burst.value <= 0

\* addProcess, as created by the last render: newProcess and processes.length
\* are the captured ones, the append works on the queued state
addProcess ==
    /\ pending < MaxBatch
    /\ Len(processes) < MaxProcs
    /\ LET name == IF closure.newProcess.name # <<>>
                   THEN closure.newProcess.name
                   ELSE DefaultName(closure.length + 1)
           arrival == parseInt(closure.newProcess.arrival)
           burst == parseInt(closure.newProcess.burst)
       IN  IF rejects(arrival, burst)
           THEN /\ error' = ErrorMessage
                /\ UNCHANGED <<processes, newProcess>>
           ELSE /\ processes' = Append(processes,
                                       [id |-> closure.length + 1, name |-> name,
                                        arrival |-> arrival.value,
                                        burst |-> burst.value])
                /\ newProcess' = EmptyInput
                /\ error' = null
    /\ pending' = pending + 1
    /\ lastCall' = [op |-> "addProcess"]
    /\ UNCHANGED <<closure, scheduledProcesses, averages>>

\* prev.filter(p => p.id !== id)
filterOut(prev, id) == SelectSeq(prev, LAMBDA p : p.id # id)

\* removeProcess(id): the button of a row of the table shown
removeProcess(id) ==
    /\ pending < MaxBatch
    /\ processes' = filterOut(processes, id)
    /\ pending' = pending + 1
    /\ lastCall' = [op |-> "removeProcess", id |-> id]
    /\ UNCHANGED <<newProcess, error, closure, scheduledProcesses, averages>>

\* clearProcesses: the button is shown while the rendered working set is not empty
clearProcesses ==
    /\ pending < MaxBatch
    /\ closure.length > 0
    /\ processes' = <<>>
    /\ newProcess' = EmptyInput
    /\ error' = null
    /\ pending' = pending + 1
    /\ lastCall' = [op |-> "clearProcesses"]
    /\ UNCHANGED <<closure, scheduledProcesses, averages>>

ShownIds == {scheduledProcesses[i].id : i \in 1..Len(scheduledProcesses)}

Next ==
    \/ Render
    \/ \E value \in NameTexts : handleInputChange("name", value)
    \/ \E value \in ArrivalTexts : handleInputChange("arrival", value)
    \/ \E value \in BurstTexts : handleInputChange("burst", value)
    \/ addProcess
    \/ \E id \in ShownIds : removeProcess(id)
    \/ clearProcesses

Spec == Init /\ [][Next]_vars

----------------------------------------------------------------------------
(* calculateFCFS alone: the component is given a working set drawn from the *)
(* valid inputs and renders it once                                         *)

Injections(n, S) == {f \in [1..n -> S] : \A i, j \in 1..n : f[i] = f[j] => i = j}

\* the array of the processes with the ids, arrivals and bursts given
InputArray(n, ids, ar, bu) ==
    [i \in 1..n |-> [id |-> ids[i], name |-> DefaultName(ids[i]),
                     arrival |-> ar[i], burst |-> bu[i]]]

\* the working set is an array of at most MaxLen processes with pairwise
\* distinct ids, arrival >= 0 and burst >= 1
FcfsInit ==
    /\ \E n \in 0..MaxLen :
          \E ids \in Injections(n, 1..MaxLen) :
             \E ar \in [1..n -> 0..MaxArrival] :
                \E bu \in [1..n -> BurstValues] :
                   processes = InputArray(n, ids, ar, bu)
    /\ newProcess = EmptyInput
    /\ error = null
    /\ closure = [length |-> 0, newProcess |-> EmptyInput]
    /\ scheduledProcesses = <<>>
    /\ averages = [avgTAT |-> Fraction(0), avgWT |-> Fraction(0)]
    /\ pending = 1
    /\ lastCall = [op |-> "none"]

FcfsSpec == FcfsInit /\ [][Render]_vars

----------------------------------------------------------------------------
(* What the claims speak of *)

Ids(ps) == {ps[i].id : i \in 1..Len(ps)}

DistinctIds(ps) == \A i, j \in 1..Len(ps) : ps[i].id = ps[j].id => i = j

ValidInput(ps) == \A i \in 1..Len(ps) : ps[i].arrival >= 0 /\ ps[i].burst >= 1

\* the input fields of a scheduled process
InputOf(p) == [id |-> p.id, name |-> p.name, arrival |-> p.arrival, burst |-> p.burst]

IdSeq(ps) == [i \in 1..Len(ps) |-> ps[i].id]

IndexPermutations(n) == Injections(n, 1..n)

Permuted(ps, f) == [i \in 1..Len(ps) |-> ps[f[i]]]

WithBursts(ps, bu) == [i \in 1..Len(ps) |-> [ps[i] EXCEPT !.burst = bu[i]]]

RemoveAt(ps, k) == [i \in 1..(Len(ps) - 1) |-> IF i < k THEN ps[i] ELSE ps[i + 1]]

RECURSIVE SumOver(_, _, _)
SumOver(ps, f, n) == IF n = 0 THEN 0 ELSE ps[n][f] + SumOver(ps, f, n - 1)

\* the call of calculateFCFS on the working set has returned
Called == pending = 0

\* a step that is a call of the handler op
IsCall(op) == pending' = pending + 1 /\ lastCall'.op = op

----------------------------------------------------------------------------
(* C1: on a valid input with pairwise distinct ids, no two distinct entries *)
(* of the output of calculateFCFS have overlapping intervals                *)
(* [start, completion)                                                      *)
C1_NoOverlap ==
    (Called /\ ValidInput(processes) /\ DistinctIds(processes)) =>
        \A x, y \in 1..Len(scheduledProcesses) :
            x # y =>
                \/ scheduledProcesses[x].completion <= scheduledProcesses[y].start
                \/ scheduledProcesses[y].completion <= scheduledProcesses[x].start

\* three processes are scheduled and one of them had to wait for the processor
C1_Witness ==
    /\ Called /\ ValidInput(processes) /\ DistinctIds(processes)
    /\ Len(scheduledProcesses) = 3
    /\ \E x \in 1..3 : scheduledProcesses[x].start > scheduledProcesses[x].arrival

(* C2: after any sequence of addProcess, removeProcess and clearProcesses   *)
(* the processes of the working set have pairwise distinct ids              *)
C2_UniqueIds == DistinctIds(processes)

(* C3: calculateFCFS returns as many entries as it was given, and every id  *)
(* of the input appears exactly once in the output, with its id, name,      *)
(* arrival and burst unchanged                                              *)
C3_EveryIdOnce ==
    Called =>
        /\ Len(scheduledProcesses) = Len(processes)
        /\ \A i \in 1..Len(processes) :
              /\ Cardinality({j \in 1..Len(scheduledProcesses) :
                                 scheduledProcesses[j].id = processes[i].id}) = 1
              /\ \E j \in 1..Len(scheduledProcesses) :
                     InputOf(scheduledProcesses[j]) = processes[i]

(* C4: the output of calculateFCFS is in ascending (arrival, id) order, and *)
(* the sequence of ids of the output is the same for every choice of the    *)
(* burst values of the input                                                *)
C4_OrderIndependentOfBurst ==
    Called =>
        /\ \A i, j \in 1..Len(scheduledProcesses) :
              i < j =>
                \/ scheduledProcesses[i].arrival < scheduledProcesses[j].arrival
                \/ /\ scheduledProcesses[i].arrival = scheduledProcesses[j].arrival
                   /\ scheduledProcesses[i].id <= scheduledProcesses[j].id
        /\ \A bu \in [1..Len(processes) -> BurstValues] :
              IdSeq(calculateFCFS(WithBursts(processes, bu))) = IdSeq(scheduledProcesses)

\* two processes arrive together, the one with the smaller id has the longer
\* burst and is scheduled first
C4_Witness ==
    /\ Called
    /\ \E i, j \in 1..Len(scheduledProcesses) :
          /\ i < j
          /\ scheduledProcesses[i].arrival = scheduledProcesses[j].arrival
          /\ scheduledProcesses[i].burst > scheduledProcesses[j].burst
          /\ scheduledProcesses[i].id < scheduledProcesses[j].id

(* C5: on a valid input every process of the output of calculateFCFS has    *)
(* waiting >= 0 and turnaround >= burst                                     *)
C5_NonNegative ==
    (Called /\ ValidInput(processes)) =>
        \A i \in 1..Len(scheduledProcesses) :
            /\ scheduledProcesses[i].waiting >= 0
            /\ scheduledProcesses[i].turnaround >= scheduledProcesses[i].burst

\* the same of the schedule the component displays, whatever the handlers did
C5_DisplayedNonNegative ==
    \A i \in 1..Len(scheduledProcesses) :
        /\ scheduledProcesses[i].waiting >= 0
        /\ scheduledProcesses[i].turnaround >= scheduledProcesses[i].burst

\* the processor idles before the first process, which does not wait, and a
\* later process waits
C5_Witness ==
    /\ Called /\ ValidInput(processes)
    /\ Len(scheduledProcesses) >= 2
    /\ scheduledProcesses[1].arrival > 0
    /\ scheduledProcesses[1].waiting = 0
    /\ \E i \in 2..Len(scheduledProcesses) : scheduledProcesses[i].waiting > 0

(* C6: removeProcess(id), with the id of a process of the working set that  *)
(* the table shows, deletes exactly one process and leaves every other      *)
(* process in the working set unchanged                                     *)
C6_RemovesExactlyOne ==
    [][(IsCall("removeProcess") /\ lastCall'.id \in Ids(processes)) =>
          \E k \in 1..Len(processes) :
              /\ processes[k].id = lastCall'.id
              /\ processes' = RemoveAt(processes, k)]_vars

(* C7: when the process that is first in schedule order has arrival a > 0,  *)
(* its start is a and its waiting time is 0                                 *)
C7_FirstStartsAtArrival ==
    (Called /\ Len(scheduledProcesses) > 0 /\ scheduledProcesses[1].arrival > 0) =>
        /\ scheduledProcesses[1].start = scheduledProcesses[1].arrival
        /\ scheduledProcesses[1].waiting = 0

\* the first of several processes arrives after time 0
C7_Witness ==
    /\ Called
    /\ Len(scheduledProcesses) >= 2
    /\ scheduledProcesses[1].arrival > 0
    /\ scheduledProcesses[1].start = scheduledProcesses[1].arrival

(* C8: for an empty working set the schedule is empty and both averages are *)
(* exactly 0; for a schedule that is not empty each average is the sum of   *)
(* the metric over the scheduled processes divided by their number; also    *)
(* when the working set has become empty again                              *)
C8_Averages ==
    /\ (Called /\ processes = <<>>) => scheduledProcesses = <<>>
    /\ scheduledProcesses = <<>> =>
          averages = [avgTAT |-> Fraction(0), avgWT |-> Fraction(0)]
    /\ scheduledProcesses # <<>> =>
          LET n == Len(scheduledProcesses)
          IN  /\ averages.avgTAT.den > 0
              /\ averages.avgTAT.num * n =
                     SumOver(scheduledProcesses, "turnaround", n) * averages.avgTAT.den
              /\ averages.avgWT.den > 0
              /\ averages.avgWT.num * n =
                     SumOver(scheduledProcesses, "waiting", n) * averages.avgWT.den

\* the last process was removed, and the component has rendered the empty
\* working set
C8_Witness ==
    /\ Called
    /\ lastCall.op = "removeProcess"
    /\ processes = <<>>
    /\ scheduledProcesses = <<>>
    /\ averages = [avgTAT |-> Fraction(0), avgWT |-> Fraction(0)]

\* both texts parse to numbers with arrival >= 0 and burst >= 1
C9_Admitted(arrival, burst) ==
    /\ ~isNaN(arrival) /\ ~isNaN(burst)
    /\ arrival.value >= 0 /\ burst.value >= 1

\* what a call of addProcess does to the working set and the error message
C9_AddStep ==
    IsCall("addProcess") =>
        LET arrival == parseInt(closure.newProcess.arrival)
            burst == parseInt(closure.newProcess.burst)
        IN  IF C9_Admitted(arrival, burst)
            THEN /\ Len(processes') = Len(processes) + 1
                 /\ SubSeq(processes', 1, Len(processes)) = processes
                 /\ processes'[Len(processes')].arrival = arrival.value
                 /\ processes'[Len(processes')].burst = burst.value
            ELSE /\ processes' = processes
                 /\ error' = ErrorMessage

(* C9: addProcess appends a process only when both texts parse to numbers   *)
(* with arrival >= 0 and burst >= 1, otherwise it sets the error message    *)
(* and leaves the working set unchanged; every process of the working set   *)
(* has arrival >= 0 and burst >= 1                                          *)
C9_Validation == [](ValidInput(processes)) /\ [][C9_AddStep]_vars

\* a process was admitted, and a later addProcess was rejected
C9_Witness ==
    /\ lastCall.op = "addProcess"
    /\ error = ErrorMessage
    /\ Len(processes) >= 1

\* every permutation of the working set gives the schedule that was computed
C10_PermutationInvariant ==
    (Called /\ ValidInput(processes) /\ DistinctIds(processes)) =>
        \A f \in IndexPermutations(Len(processes)) :
            calculateFCFS(Permuted(processes, f)) = scheduledProcesses

(* C10: on a valid input with pairwise distinct ids every permutation of    *)
(* the input array gives the same output of calculateFCFS, and the call     *)
(* leaves the input array as it was                                         *)
C10_Deterministic ==
    [](C10_PermutationInvariant) /\ [][processes' = processes]_vars

\* the input array was not in schedule order
C10_Witness ==
    /\ Called
    /\ Len(processes) = 3
    /\ IdSeq(scheduledProcesses) # IdSeq(processes)
    /\ \E i \in 1..2 : processes[i].arrival = processes[i + 1].arrival

\* the time at which the processor is free for the i-th process of the output
C11_FreeAt(i) == IF i = 1 THEN 0 ELSE scheduledProcesses[i - 1].completion

(* C11: in output order the first process starts at max(0, arrival) and     *)
(* every later one at max(completion of the preceding process, arrival);    *)
(* completion = start + burst, turnaround = completion - arrival and        *)
(* waiting = start - arrival; starts do not decrease along the output, and  *)
(* the processor idles just before a process only if it starts exactly at   *)
(* its arrival                                                              *)
C11_Recurrence ==
    Called =>
        \A i \in 1..Len(scheduledProcesses) :
            LET p == scheduledProcesses[i]
            IN  /\ p.start = Max(C11_FreeAt(i), p.arrival)
                /\ p.completion = p.start + p.burst
                /\ p.turnaround = p.completion - p.arrival
                /\ p.waiting = p.start - p.arrival
                /\ i > 1 => scheduledProcesses[i - 1].start <= p.start
                /\ p.start > C11_FreeAt(i) => p.start = p.arrival

\* the processor idles between the first and the second process, and the
\* third process waits for the second
C11_Witness ==
    /\ Called
    /\ Len(scheduledProcesses) = 3
    /\ scheduledProcesses[2].start > scheduledProcesses[1].completion
    /\ scheduledProcesses[3].start = scheduledProcesses[2].completion
    /\ scheduledProcesses[3].start > scheduledProcesses[3].arrival

====
